---- MODULE Spec2Model ----
(***************************************************************************)
(* Model of the foodgram backend: the relational tables of recipes/models  *)
(* and users/models, and the request handlers of api/views together with   *)
(* the validation and persistence code of api/serializers.                 *)
(*                                                                         *)
(* Every ORM call of a handler is one database statement, committed on its *)
(* own: neither views.py nor serializers.py opens a transaction.  A        *)
(* handler is therefore a sequence of steps, one per statement, and the    *)
(* requests in flight (one per slot of req) interleave at the statements.  *)
(***************************************************************************)
EXTENDS Integers, Sequences, FiniteSets, Bags, TLC

\* ------------------------------------------------------------------ bounds
MaxRecipes == 2        \* Recipe ids handed out
MaxRowId == 2          \* ids handed out per join table
MaxAmount == 2         \* largest amount a request names

Users == {1, 2}
Slots == {1, 2}
RecipeIds == 1..MaxRecipes

\* ------------------------------------------------------- the Ingredient table
\* Loaded once by the load_ingredients command; no handler writes it.
\* Ingredient.name is unique, so a name stands for one row.
Ingredient ==
    { [id |-> 1, name |-> "Salt", measurement_unit |-> "g"],
      [id |-> 2, name |-> "Flour", measurement_unit |-> "kg"] }

IngredientIds == { i.id : i \in Ingredient }
UnknownIngredientId == 9

IngredientById(i) == CHOOSE x \in Ingredient : x.id = i

\* The collation of the names, as ORDER BY sees them.
SortedNames == <<"Flour", "Salt">>

NameRank(n) == CHOOSE k \in 1..Len(SortedNames) : SortedNames[k] = n

\* ----------------------------------------------------------- request data
NoImage == ""
NoRecipe == [id |-> 0, author |-> 0, name |-> "", image |-> NoImage,
             text |-> "", cooking_time |-> 0]

\* The items a request may name: every ingredient with the least and the
\* largest amount, an id with no Ingredient row, and an amount below the
\* minimum.
ValidItems == [id : IngredientIds, amount : {1, MaxAmount}]
InvalidItems == { [id |-> UnknownIngredientId, amount |-> 1], [id |-> 1, amount |-> 0] }

Distinct(l) == \A j, k \in DOMAIN l : l[j].id = l[k].id => j = k

\* Every list that names each ingredient at most once, in every order.
ValidLists ==
    { l \in UNION { [1..n -> ValidItems] : n \in 1..Cardinality(IngredientIds) } :
        Distinct(l) }

\* The empty list, lists that name one ingredient twice, and lists that hold
\* an invalid item, alone or after a valid one.
InvalidLists ==
    { <<>> }
        \cup { <<[id |-> i, amount |-> 1], [id |-> i, amount |-> a]>> :
                 i \in IngredientIds, a \in {1, MaxAmount} }
        \cup { <<x>> : x \in InvalidItems }
        \cup { <<[id |-> 1, amount |-> 1], x>> : x \in InvalidItems }

RecipeForms ==
    { [name |-> "Soup", text |-> "boil", cooking_time |-> 30, image |-> "soup.png"],
      [name |-> "Cake", text |-> "bake", cooking_time |-> 45, image |-> "cake.png"] }

FirstForm == CHOOSE f \in RecipeForms : f.name = "Soup"
SecondForm == CHOOSE f \in RecipeForms : f.name = "Cake"

\* The body of a recipe write.  keys holds the optional keys the request
\* carries; a key it does not carry has the empty value.
Body(f, k, l) ==
    [keys |-> k, name |-> f.name, text |-> f.text, cooking_time |-> f.cooking_time,
     image |-> IF "image" \in k THEN f.image ELSE NoImage,
     ingredients |-> IF "ingredients" \in k THEN l ELSE <<>>]

Complete == {"image", "ingredients"}

\* The bodies that validation accepts: the first form with every valid
\* list, the second form with one.
ValidData ==
    { Body(FirstForm, Complete, l) : l \in ValidLists }
        \cup { Body(SecondForm, Complete, <<[id |-> 2, amount |-> 1]>>) }

\* The bodies that carry a bad list, and the bodies that lack a key.
BadListData == { Body(f, Complete, l) : f \in {FirstForm}, l \in InvalidLists }
LackingData ==
    { Body(f, k, l) : f \in {FirstForm}, k \in (SUBSET Complete) \ {Complete},
                      l \in { <<[id |-> 2, amount |-> 1]>> } }

RecipeData == ValidData \cup BadListData \cup LackingData

NoData == [keys |-> {}, name |-> "", text |-> "", cooking_time |-> 0,
           image |-> NoImage, ingredients |-> <<>>]

\* ------------------------------------------------------------------- state
VARIABLES
    Recipe,             \* set of rows [id, author, name, image, text, cooking_time]
    RecipeIngredient,   \* bag of rows [recipe, ingredient, amount]
    FavoriteRecipe,     \* bag of rows [user, recipe]
    ShoppingCart,       \* set of rows [id, user, recipe]
    Subscribers,        \* bag of rows [author, user]
    seq,                \* the last id handed out, per table with ids
    shopping_cart_txt,  \* the file shopping_cart.txt, a sequence of lines
    written,            \* per recipe, the ingredient lists of the writes accepted
                        \* since no write of that recipe was in flight
    req                 \* the request of each slot

tables == <<Recipe, RecipeIngredient, FavoriteRecipe, ShoppingCart, Subscribers, seq>>
vars == <<Recipe, RecipeIngredient, FavoriteRecipe, ShoppingCart, Subscribers,
          seq, shopping_cart_txt, written, req>>

NoResponse == [status |-> 0, error |-> "", body |-> <<>>]

Response(st, err, b) == [status |-> st, error |-> err, body |-> b]

\* A slot holds the request (op, user, id, partial, data), the handler's
\* position and locals (recipe: the instance it loaded; todo: the items still
\* to insert; ingredients: the aggregated shopping list; created: the id of
\* the row it inserted), and, once pc is "done", the response.  The locals
\* and the request body are gone when the handler has returned.
Idle == [op |-> "none", pc |-> "idle", user |-> 0, id |-> 0, partial |-> FALSE,
         data |-> NoData, recipe |-> NoRecipe, todo |-> <<>>, ingredients |-> <<>>,
         created |-> 0, resp |-> NoResponse]

Free(s) == req[s].pc \in {"idle", "done"}

Done(r, resp) ==
    [Idle EXCEPT !.op = r.op, !.pc = "done", !.user = r.user, !.id = r.id,
                 !.resp = resp]

Request(op, user, id, partial, data) ==
    [op |-> op, user |-> user, id |-> id, partial |-> partial, data |-> data]

Init ==
    /\ Recipe = {}
    /\ RecipeIngredient = EmptyBag
    /\ FavoriteRecipe = EmptyBag
    /\ ShoppingCart = {}
    /\ Subscribers = EmptyBag
    /\ seq = [recipe |-> 0, cart |-> 0]
    /\ shopping_cart_txt = <<>>
    /\ written = [id \in RecipeIds |-> {}]
    /\ req = [s \in Slots |-> Idle]

\* A request arrives in a free slot.  The guards cap the ids handed out.
Receive(s, r) ==
    /\ Free(s)
    /\ r.op = "create_recipe" => seq.recipe < MaxRecipes
    /\ r.op = "cart_post" => seq.cart < MaxRowId
    /\ req' = [req EXCEPT ![s] =
           [Idle EXCEPT !.op = r.op, !.pc = "start", !.user = r.user, !.id = r.id,
                        !.partial = r.partial, !.data = r.data]]
    /\ UNCHANGED <<tables, shopping_cart_txt, written>>

\* ---------------------------------------------------------------- bag rows
Where(bag, P(_)) == [x \in { y \in BagToSet(bag) : P(y) } |-> bag[x]]

Insert(bag, row) == bag (+) SetToBag({row})

\* ------------------------------------------------------- recipe validation
\* The field validation without MinValueValidator(1) on amount
FieldErrorsAnyAmount(data, partial) ==
    IF ~partial /\ {"image", "ingredients"} \ data.keys # {}
    THEN "required"
    ELSE IF \E k \in DOMAIN data.ingredients :
                data.ingredients[k].id \notin IngredientIds
    THEN "does_not_exist"
    ELSE "ok"

\* IngredientsInRecipeSerializer and the field declarations of
\* RecipeSerializer: a required key that is missing (unless the update is
\* partial), an ingredient id with no Ingredient row, an amount below 1.
FieldErrors(data, partial) ==
    IF ~partial /\ {"image", "ingredients"} \ data.keys # {}
    THEN "required"
    ELSE IF \E k \in DOMAIN data.ingredients :
                data.ingredients[k].id \notin IngredientIds
    THEN "does_not_exist"
    ELSE IF \E k \in DOMAIN data.ingredients : data.ingredients[k].amount < 1
    THEN "min_value"
    ELSE "ok"

\* validate without the test of the empty list
validate_any_list(data) ==
    LET ingredients == data.ingredients
        ingredients_id_list == [k \in DOMAIN ingredients |-> ingredients[k].id]
    IN  IF Len(ingredients_id_list)
               # Cardinality({ ingredients_id_list[k] : k \in DOMAIN ingredients_id_list })
        THEN "duplicate_ingredients"
        ELSE IF "image" \notin data.keys \/ data.image = NoImage
        THEN "no_image"
        ELSE "ok"

\* validate comparing the items, amounts included, instead of the ids
validate_pairs(data) ==
    LET ingredients == data.ingredients
    IN  IF "ingredients" \notin data.keys \/ ingredients = <<>>
        THEN "no_ingredients"
        ELSE IF Len(ingredients) # Cardinality({ ingredients[k] : k \in DOMAIN ingredients })
        THEN "duplicate_ingredients"
        ELSE IF "image" \notin data.keys \/ data.image = NoImage
        THEN "no_image"
        ELSE "ok"

\* validate without the test of the image
validate_stored_image(data) ==
    LET ingredients == data.ingredients
        ingredients_id_list == [k \in DOMAIN ingredients |-> ingredients[k].id]
    IN  IF "ingredients" \notin data.keys \/ ingredients = <<>>
        THEN "no_ingredients"
        ELSE IF Len(ingredients_id_list)
                    # Cardinality({ ingredients_id_list[k] : k \in DOMAIN ingredients_id_list })
        THEN "duplicate_ingredients"
        ELSE "ok"

\* RecipeSerializer.validate
validate(data) ==
    LET ingredients == data.ingredients
        ingredients_id_list == [k \in DOMAIN ingredients |-> ingredients[k].id]
    IN  IF "ingredients" \notin data.keys \/ ingredients = <<>>
        THEN "no_ingredients"
        ELSE IF Len(ingredients_id_list)
                    # Cardinality({ ingredients_id_list[k] : k \in DOMAIN ingredients_id_list })
        THEN "duplicate_ingredients"
        ELSE IF "image" \notin data.keys \/ data.image = NoImage
        THEN "no_image"
        ELSE "ok"

\* serializer.is_valid(raise_exception=True): the fields first, then validate
is_valid(data, partial) ==
    LET e == FieldErrors(data, partial)
    IN  IF e # "ok" THEN e ELSE validate(data)

\* ---------------------------------------------------------- recipe queries
RecipesWithId(id) == { r \in Recipe : r.id = id }

\* instance.recipeingredients: the rows of a recipe, with their multiplicity
recipeingredients(id) ==
    LET OfRecipe(x) == x.recipe = id IN Where(RecipeIngredient, OfRecipe)

\* the unique constraint unique_recipe_ingredients
RecipeIngredientConflict(row) ==
    \E x \in BagToSet(RecipeIngredient) :
        x.recipe = row.recipe /\ x.ingredient = row.ingredient

\* FavoriteRecipe.objects.filter(user=..., recipe=...)
Favorites(u, id) ==
    LET Match(x) == x.user = u /\ x.recipe = id IN Where(FavoriteRecipe, Match)

\* ShoppingCart.objects.filter(user=..., recipe=...)
Carts(u, id) == { c \in ShoppingCart : c.user = u /\ c.recipe = id }

\* Subscribers.objects.filter(author=..., user=...)
Subscriptions(a, u) ==
    LET Match(x) == x.author = a /\ x.user = u IN Where(Subscribers, Match)

\* get_is_favorited without the filter on the requesting user
get_is_favorited_by_anyone(u, id) ==
    u \in Users /\ \E x \in BagToSet(FavoriteRecipe) : x.recipe = id

\* RecipeSerializer.get_is_favorited
get_is_favorited(u, id) == u \in Users /\ Favorites(u, id) # EmptyBag

\* RecipeSerializer.get_is_in_shopping_cart
get_is_in_shopping_cart(u, id) == u \in Users /\ Carts(u, id) # {}

\* RecipeSerializer.to_representation
to_representation(user, instance) ==
    [id |-> instance.id, author |-> instance.author, name |-> instance.name,
     image |-> instance.image, text |-> instance.text,
     cooking_time |-> instance.cooking_time,
     is_favorited |-> get_is_favorited(user, instance.id),
     is_in_shopping_cart |-> get_is_in_shopping_cart(user, instance.id),
     ingredients |-> recipeingredients(instance.id)]

\* The rows a validated ingredients list stands for.
ListRows(id, ingredients) ==
    SetToBag({ [recipe |-> id, ingredient |-> ingredients[k].id,
                amount |-> ingredients[k].amount] : k \in DOMAIN ingredients })

\* A write of recipe id is between its validation and its last insert.
WriteInFlight(s, id) ==
    /\ req[s].op \in {"create_recipe", "update_recipe"}
    /\ req[s].pc \in {"clear", "save", "add_ingredients", "represent"}
    /\ req[s].recipe.id = id

Accept(s, id, ingredients) ==
    [written EXCEPT ![id] =
        (IF \E t \in Slots \ {s} : WriteInFlight(t, id) THEN @ ELSE {})
            \cup {ListRows(id, ingredients)}]

\* ------------------------------------------------------------ recipe writes
\* add_ingredients loops over the items that are left.
AfterRecipeRow(todo) == IF todo = <<>> THEN "represent" ELSE "add_ingredients"

\* POST /recipes/: validation, then RecipeSerializer.create inserts the
\* Recipe row (perform_create passes the author).
StartCreateRecipe(s) ==
    /\ req[s].pc = "start"
    /\ req[s].op = "create_recipe"
    /\ LET data == req[s].data
           e == is_valid(data, FALSE)
           row == [id |-> seq.recipe + 1, author |-> req[s].user, name |-> data.name,
                   image |-> data.image, text |-> data.text,
                   cooking_time |-> data.cooking_time]
       IN  IF e # "ok"
           THEN /\ req' = [req EXCEPT ![s] = Done(req[s], Response(400, e, <<>>))]
                /\ UNCHANGED <<tables, written>>
           ELSE /\ Recipe' = Recipe \cup {row}
                /\ seq' = [seq EXCEPT !.recipe = @ + 1]
                /\ written' = Accept(s, row.id, data.ingredients)
                /\ req' = [req EXCEPT ![s].pc = AfterRecipeRow(data.ingredients),
                                      ![s].id = row.id, ![s].recipe = row,
                                      ![s].todo = data.ingredients]
                /\ UNCHANGED <<RecipeIngredient, FavoriteRecipe, ShoppingCart,
                               Subscribers>>
    /\ UNCHANGED shopping_cart_txt

\* an update that clears the recipe's rows before it validates the request
StartUpdateRecipeClearsFirst(s) ==
    /\ req[s].pc = "start"
    /\ req[s].op = "update_recipe"
    /\ LET found == RecipesWithId(req[s].id)
           e == is_valid(req[s].data, req[s].partial)
           Others(x) == x.recipe # req[s].id
       IN  IF found = {}
           THEN /\ req' = [req EXCEPT ![s] =
                       Done(req[s], Response(404, "not_found", <<>>))]
                /\ UNCHANGED <<written, RecipeIngredient>>
           ELSE IF e # "ok"
           THEN /\ req' = [req EXCEPT ![s] = Done(req[s], Response(400, e, <<>>))]
                /\ RecipeIngredient' = Where(RecipeIngredient, Others)
                /\ UNCHANGED written
           ELSE /\ req' = [req EXCEPT ![s].pc = "clear",
                                      ![s].recipe = CHOOSE r \in found : TRUE,
                                      ![s].todo = req[s].data.ingredients]
                /\ written' = Accept(s, req[s].id, req[s].data.ingredients)
                /\ UNCHANGED RecipeIngredient
    /\ UNCHANGED <<Recipe, FavoriteRecipe, ShoppingCart, Subscribers, seq,
                   shopping_cart_txt>>

\* PUT or PATCH /recipes/{id}/: get_object, then validation.  Any
\* authenticated user passes get_permissions.
StartUpdateRecipe(s) ==
    /\ req[s].pc = "start"
    /\ req[s].op = "update_recipe"
    /\ LET found == RecipesWithId(req[s].id)
           e == is_valid(req[s].data, req[s].partial)
       IN  IF found = {}
           THEN /\ req' = [req EXCEPT ![s] =
                       Done(req[s], Response(404, "not_found", <<>>))]
                /\ UNCHANGED written
           ELSE IF e # "ok"
           THEN /\ req' = [req EXCEPT ![s] = Done(req[s], Response(400, e, <<>>))]
                /\ UNCHANGED written
           ELSE /\ req' = [req EXCEPT ![s].pc = "clear",
                                      ![s].recipe = CHOOSE r \in found : TRUE,
                                      ![s].todo = req[s].data.ingredients]
                /\ written' = Accept(s, req[s].id, req[s].data.ingredients)
    /\ UNCHANGED <<tables, shopping_cart_txt>>

\* update without recipe.ingredients.clear()
ClearNothing(s) ==
    /\ req[s].pc = "clear"
    /\ req' = [req EXCEPT ![s].pc = "save"]
    /\ UNCHANGED <<tables, shopping_cart_txt, written>>

\* RecipeSerializer.update: recipe.ingredients.clear()
ClearIngredients(s) ==
    /\ req[s].pc = "clear"
    /\ LET Others(x) == x.recipe # req[s].recipe.id
       IN  RecipeIngredient' = Where(RecipeIngredient, Others)
    /\ req' = [req EXCEPT ![s].pc = "save"]
    /\ UNCHANGED <<Recipe, FavoriteRecipe, ShoppingCart, Subscribers, seq,
                   shopping_cart_txt, written>>

\* RecipeSerializer.update: super().update sets the validated fields on the
\* loaded instance and saves it.
SaveRecipe(s) ==
    /\ req[s].pc = "save"
    /\ req[s].op = "update_recipe"
    /\ LET data == req[s].data
           row == [req[s].recipe EXCEPT !.name = data.name, !.image = data.image,
                                        !.text = data.text,
                                        !.cooking_time = data.cooking_time]
       IN  /\ Recipe' = (Recipe \ RecipesWithId(row.id)) \cup {row}
           /\ req' = [req EXCEPT ![s].pc = AfterRecipeRow(req[s].todo),
                                 ![s].recipe = row]
    /\ UNCHANGED <<RecipeIngredient, FavoriteRecipe, ShoppingCart, Subscribers,
                   seq, shopping_cart_txt, written>>

\* RecipeSerializer.add_ingredients: one RecipeIngredient.objects.create per
\* item; the unique constraint turns a second row of the pair into an
\* IntegrityError, which no handler catches.
AddIngredient(s) ==
    /\ req[s].pc = "add_ingredients"
    /\ LET ingredient == Head(req[s].todo)
           row == [recipe |-> req[s].recipe.id, ingredient |-> ingredient.id,
                   amount |-> ingredient.amount]
       IN  IF RecipeIngredientConflict(row)
           THEN /\ req' = [req EXCEPT ![s] =
                       Done(req[s], Response(500, "IntegrityError", <<>>))]
                /\ UNCHANGED RecipeIngredient
           ELSE /\ RecipeIngredient' = Insert(RecipeIngredient, row)
                /\ req' = [req EXCEPT ![s].todo = Tail(@),
                                      ![s].pc = AfterRecipeRow(Tail(req[s].todo))]
    /\ UNCHANGED <<Recipe, FavoriteRecipe, ShoppingCart, Subscribers, seq,
                   shopping_cart_txt, written>>

\* The response of a recipe write or of GET /recipes/{id}/: serializer.data
\* of the instance.
Represent(s) ==
    /\ req[s].pc = "represent"
    /\ req[s].op \in {"create_recipe", "update_recipe", "retrieve"}
    /\ req' = [req EXCEPT ![s] =
           Done(req[s], Response(IF req[s].op = "create_recipe" THEN 201 ELSE 200, "",
                                 to_representation(req[s].user, req[s].recipe)))]
    /\ UNCHANGED <<tables, shopping_cart_txt, written>>

CreateStep(s) ==
    \/ StartCreateRecipe(s)
    \/ AddIngredient(s)
    \/ Represent(s)

UpdateStep(s) ==
    \/ StartUpdateRecipe(s)
    \/ ClearIngredients(s)
    \/ SaveRecipe(s)

\* --------------------------------------------------- favorite, shopping_cart
ToggleOps == {"favorite_post", "favorite_delete", "cart_post", "cart_delete"}

\* RecipeMinifiedSerializer(recipe).data
RecipeMinified(instance) ==
    [id |-> instance.id, name |-> instance.name, image |-> instance.image,
     cooking_time |-> instance.cooking_time]

\* ShoppingCartSerializer(cart).data: Meta.model is ShoppingCart, so id is
\* the key of the ShoppingCart row; the other fields come from cart.recipe.
ShoppingCartData(cart_id, instance) ==
    [id |-> cart_id, name |-> instance.name, image |-> instance.image,
     cooking_time |-> instance.cooking_time]

\* get_object_or_404(Recipe, ...) of favorite and shopping_cart, and
\* get_object of retrieve.
LoadRecipe(s) ==
    /\ req[s].pc = "start"
    /\ req[s].op \in ToggleOps \cup {"retrieve"}
    /\ LET found == RecipesWithId(req[s].id)
       IN  req' = [req EXCEPT ![s] =
               IF found = {}
               THEN Done(req[s], Response(404, "not_found", <<>>))
               ELSE [req[s] EXCEPT !.recipe = CHOOSE r \in found : TRUE,
                                   !.pc = CASE req[s].op = "retrieve" -> "represent"
                                            [] req[s].op = "cart_delete" -> "delete"
                                            [] OTHER -> "check"]]
    /\ UNCHANGED <<tables, shopping_cart_txt, written>>

\* add_to_favorites without the test of the existing row
CheckFavoriteOnDelete(s) ==
    /\ req[s].pc = "check"
    /\ req[s].op \in {"favorite_post", "favorite_delete"}
    /\ LET exists == Favorites(req[s].user, req[s].recipe.id) # EmptyBag
       IN  req' = [req EXCEPT ![s] =
               IF req[s].op = "favorite_post"
               THEN [req[s] EXCEPT !.pc = "insert"]
               ELSE IF ~exists
                    THEN Done(req[s], Response(400, "not_in_favorites", <<>>))
                    ELSE [req[s] EXCEPT !.pc = "delete"]]
    /\ UNCHANGED <<tables, shopping_cart_txt, written>>

\* add_to_favorites and remove_from_favorites: request.user.favorites
\* .filter(recipe=recipe).exists()
CheckFavorite(s) ==
    /\ req[s].pc = "check"
    /\ req[s].op \in {"favorite_post", "favorite_delete"}
    /\ LET exists == Favorites(req[s].user, req[s].recipe.id) # EmptyBag
       IN  req' = [req EXCEPT ![s] =
               IF req[s].op = "favorite_post"
               THEN IF exists
                    THEN Done(req[s], Response(400, "already_added", <<>>))
                    ELSE [req[s] EXCEPT !.pc = "insert"]
               ELSE IF ~exists
                    THEN Done(req[s], Response(400, "not_in_favorites", <<>>))
                    ELSE [req[s] EXCEPT !.pc = "delete"]]
    /\ UNCHANGED <<tables, shopping_cart_txt, written>>

\* add_to_shopping_cart: ShoppingCart.objects.filter(...).exists()
CheckShoppingCart(s) ==
    /\ req[s].pc = "check"
    /\ req[s].op = "cart_post"
    /\ req' = [req EXCEPT ![s] =
           IF Carts(req[s].user, req[s].recipe.id) # {}
           THEN Done(req[s], Response(400, "already_added", <<>>))
           ELSE [req[s] EXCEPT !.pc = "insert"]]
    /\ UNCHANGED <<tables, shopping_cart_txt, written>>

\* add_to_favorites on a table without unique_together (user, recipe)
InsertFavoriteUnchecked(s) ==
    /\ req[s].pc = "insert"
    /\ req[s].op = "favorite_post"
    /\ FavoriteRecipe' = Insert(FavoriteRecipe,
           [user |-> req[s].user, recipe |-> req[s].recipe.id])
    /\ req' = [req EXCEPT ![s].pc = "save"]
    /\ UNCHANGED <<Recipe, RecipeIngredient, ShoppingCart, Subscribers, seq,
                   shopping_cart_txt, written>>

\* add_to_favorites: FavoriteRecipe.objects.create; unique_together
\* (user, recipe) raises IntegrityError, which the handler does not catch.
InsertFavorite(s) ==
    /\ req[s].pc = "insert"
    /\ req[s].op = "favorite_post"
    /\ IF Favorites(req[s].user, req[s].recipe.id) # EmptyBag
       THEN /\ req' = [req EXCEPT ![s] =
                   Done(req[s], Response(500, "IntegrityError", <<>>))]
            /\ UNCHANGED FavoriteRecipe
       ELSE /\ FavoriteRecipe' = Insert(FavoriteRecipe,
                   [user |-> req[s].user, recipe |-> req[s].recipe.id])
            /\ req' = [req EXCEPT ![s].pc = "save"]
    /\ UNCHANGED <<Recipe, RecipeIngredient, ShoppingCart, Subscribers, seq,
                   shopping_cart_txt, written>>

\* add_to_shopping_cart: serializer.save(user=..., recipe=recipe).  The
\* serializer has no writable field, so is_valid passes and the insert
\* meets unique_together (user, recipe) in the database.  The sequence
\* hands out an id to a failing insert too.
InsertShoppingCart(s) ==
    /\ req[s].pc = "insert"
    /\ req[s].op = "cart_post"
    /\ seq' = [seq EXCEPT !.cart = @ + 1]
    /\ IF Carts(req[s].user, req[s].recipe.id) # {}
       THEN /\ req' = [req EXCEPT ![s] =
                   Done(req[s], Response(500, "IntegrityError", <<>>))]
            /\ UNCHANGED ShoppingCart
       ELSE /\ ShoppingCart' = ShoppingCart \cup
                   {[id |-> seq.cart + 1, user |-> req[s].user,
                     recipe |-> req[s].recipe.id]}
            /\ req' = [req EXCEPT ![s].pc = "save", ![s].created = seq.cart + 1]
    /\ UNCHANGED <<Recipe, RecipeIngredient, FavoriteRecipe, Subscribers,
                   shopping_cart_txt, written>>

\* remove_from_favorites: favorite_recipe.delete()
DeleteFavorite(s) ==
    /\ req[s].pc = "delete"
    /\ req[s].op = "favorite_delete"
    /\ LET Others(x) == ~(x.user = req[s].user /\ x.recipe = req[s].recipe.id)
       IN  FavoriteRecipe' = Where(FavoriteRecipe, Others)
    /\ req' = [req EXCEPT ![s].pc = "save"]
    /\ UNCHANGED <<Recipe, RecipeIngredient, ShoppingCart, Subscribers, seq,
                   shopping_cart_txt, written>>

\* remove_from_shopping_cart without the test of the number of deleted rows
DeleteShoppingCartQuietly(s) ==
    /\ req[s].pc = "delete"
    /\ req[s].op = "cart_delete"
    /\ ShoppingCart' = ShoppingCart \ Carts(req[s].user, req[s].recipe.id)
    /\ req' = [req EXCEPT ![s].pc = "save"]
    /\ UNCHANGED <<Recipe, RecipeIngredient, FavoriteRecipe, Subscribers, seq,
                   shopping_cart_txt, written>>

\* remove_from_shopping_cart: ShoppingCart.objects.filter(...).delete() and
\* the test of the number of rows it deleted.
DeleteShoppingCart(s) ==
    /\ req[s].pc = "delete"
    /\ req[s].op = "cart_delete"
    /\ LET deleted == Carts(req[s].user, req[s].recipe.id)
       IN  /\ ShoppingCart' = ShoppingCart \ deleted
           /\ req' = [req EXCEPT ![s] =
                  IF deleted # {}
                  THEN [req[s] EXCEPT !.pc = "save"]
                  ELSE Done(req[s], Response(400, "not_in_shopping_cart", <<>>))]
    /\ UNCHANGED <<Recipe, RecipeIngredient, FavoriteRecipe, Subscribers, seq,
                   shopping_cart_txt, written>>

\* recipe.is_favorited = ... / recipe.is_in_shopping_cart = ...; recipe.save():
\* the attribute is no column, and save() writes every column of the
\* instance the handler loaded.  Then the response.
SaveLoaded(s) ==
    /\ req[s].pc = "save"
    /\ req[s].op \in ToggleOps
    /\ Recipe' = (Recipe \ RecipesWithId(req[s].recipe.id)) \cup {req[s].recipe}
    /\ req' = [req EXCEPT ![s] = Done(req[s],
           CASE req[s].op = "favorite_post" ->
                    Response(201, "", RecipeMinified(req[s].recipe))
             [] req[s].op = "cart_post" ->
                    Response(201, "", ShoppingCartData(req[s].created, req[s].recipe))
             [] OTHER -> Response(204, "", <<>>))]
    /\ UNCHANGED <<RecipeIngredient, FavoriteRecipe, ShoppingCart, Subscribers,
                   seq, shopping_cart_txt, written>>

FavoriteStep(s) ==
    \/ CheckFavorite(s)
    \/ InsertFavorite(s)
    \/ DeleteFavorite(s)

ShoppingCartStep(s) ==
    \/ CheckShoppingCart(s)
    \/ InsertShoppingCart(s)
    \/ DeleteShoppingCart(s)

\* ------------------------------------------------------------------ subscribe
UnknownUserId == 9

\* validate without the test of author against user
validate_subscribe_rows(author, user) ==
    IF Subscriptions(author, user) # EmptyBag
    THEN "already_subscribed"
    ELSE "ok"

\* SubscribeSerializer.validate
validate_subscribe(author, user) ==
    IF author = user
    THEN "self_subscription"
    ELSE IF Subscriptions(author, user) # EmptyBag
    THEN "already_subscribed"
    ELSE "ok"

\* The constraints unique_author_user and author_and_user_different.
SubscribersConflict(row) ==
    \/ Subscriptions(row.author, row.user) # EmptyBag
    \/ row.author = row.user

\* UserViewSet.subscribe, POST: get_object_or_404(User, id=id), then
\* serializer.is_valid.
StartSubscribe(s) ==
    /\ req[s].pc = "start"
    /\ req[s].op = "subscribe_post"
    /\ LET e == validate_subscribe(req[s].id, req[s].user)
       IN  req' = [req EXCEPT ![s] =
               IF req[s].id \notin Users
               THEN Done(req[s], Response(404, "not_found", <<>>))
               ELSE IF e # "ok"
               THEN Done(req[s], Response(400, e, <<>>))
               ELSE [req[s] EXCEPT !.pc = "insert"]]
    /\ UNCHANGED <<tables, shopping_cart_txt, written>>

\* UserViewSet.subscribe, POST: serializer.save()
InsertSubscriber(s) ==
    /\ req[s].pc = "insert"
    /\ req[s].op = "subscribe_post"
    /\ LET row == [author |-> req[s].id, user |-> req[s].user]
       IN  IF SubscribersConflict(row)
           THEN /\ req' = [req EXCEPT ![s] =
                       Done(req[s], Response(500, "IntegrityError", <<>>))]
                /\ UNCHANGED Subscribers
           ELSE /\ Subscribers' = Insert(Subscribers, row)
                /\ req' = [req EXCEPT ![s].pc = "represent"]
    /\ UNCHANGED <<Recipe, RecipeIngredient, FavoriteRecipe, ShoppingCart, seq,
                   shopping_cart_txt, written>>

\* SubscriptionsListSerializer(subscription).data
RepresentSubscription(s) ==
    /\ req[s].pc = "represent"
    /\ req[s].op = "subscribe_post"
    /\ req' = [req EXCEPT ![s] = Done(req[s], Response(201, "",
           [id |-> req[s].id,
            is_subscribed |-> Subscriptions(req[s].id, req[s].user) # EmptyBag,
            recipes_count |-> Cardinality({ r \in Recipe : r.author = req[s].id })]))]
    /\ UNCHANGED <<tables, shopping_cart_txt, written>>

\* UserViewSet.subscribe, DELETE
Unsubscribe(s) ==
    /\ req[s].pc = "start"
    /\ req[s].op = "subscribe_delete"
    /\ LET deleted == Subscriptions(req[s].id, req[s].user)
           Others(x) == ~(x.author = req[s].id /\ x.user = req[s].user)
       IN  IF req[s].id \notin Users
           THEN /\ req' = [req EXCEPT ![s] =
                       Done(req[s], Response(404, "not_found", <<>>))]
                /\ UNCHANGED Subscribers
           ELSE /\ Subscribers' = Where(Subscribers, Others)
                /\ req' = [req EXCEPT ![s] = Done(req[s],
                       IF deleted # EmptyBag
                       THEN Response(204, "", <<>>)
                       ELSE Response(400, "", <<>>))]
    /\ UNCHANGED <<Recipe, RecipeIngredient, FavoriteRecipe, ShoppingCart, seq,
                   shopping_cart_txt, written>>

\* UserSerializer.get_is_subscribed
get_is_subscribed(u, author) == u \in Users /\ Subscriptions(author, u) # EmptyBag

\* GET /users/{id}/: get_object, then UserSerializer(user).data.  Anyone
\* passes get_permissions.
RetrieveUser(s) ==
    /\ req[s].pc = "start"
    /\ req[s].op = "retrieve_user"
    /\ req' = [req EXCEPT ![s] =
           IF req[s].id \notin Users
           THEN Done(req[s], Response(404, "not_found", <<>>))
           ELSE Done(req[s], Response(200, "",
                    [id |-> req[s].id,
                     is_subscribed |-> get_is_subscribed(req[s].user, req[s].id)]))]
    /\ UNCHANGED <<tables, shopping_cart_txt, written>>

SubscribeStep(s) ==
    \/ StartSubscribe(s)
    \/ InsertSubscriber(s)
    \/ RepresentSubscription(s)
    \/ Unsubscribe(s)

\* ------------------------------------------------------ download_shopping_cart
\* The query with one join for the names and another for the amounts: a
\* result row for every pair of RecipeIngredient rows of the recipe.
RowsOfCartTwoJoins(c) ==
    LET rows == BagToSet(recipeingredients(c.recipe))
    IN  IF rows = {}
        THEN { [cart |-> c.id, copy |-> 1, null |-> TRUE, name |-> "None",
                amount |-> 0, measurement_unit |-> "None"] }
        ELSE { [cart |-> c.id, copy |-> y.ingredient, null |-> FALSE,
                name |-> IngredientById(x.ingredient).name,
                amount |-> y.amount,
                measurement_unit |-> IngredientById(x.ingredient).measurement_unit] :
                  x \in rows, y \in rows }

\* The result rows that one ShoppingCart row gives in the query of
\* download_shopping_cart.  The path recipe_id__ingredients of values() and
\* the path recipe_id__recipeingredients of the annotation go through the
\* same join of the RecipeIngredient table, so a result row is the cart row
\* with one RecipeIngredient row of its recipe.  The join is a left outer
\* join: a recipe without rows gives one result row of nulls.
RowsOfCart(c) ==
    LET rows == recipeingredients(c.recipe)
    IN  IF rows = EmptyBag
        THEN { [cart |-> c.id, copy |-> 1, null |-> TRUE, name |-> "None",
                amount |-> 0, measurement_unit |-> "None"] }
        ELSE UNION { { [cart |-> c.id, copy |-> k, null |-> FALSE,
                        name |-> IngredientById(x.ingredient).name,
                        amount |-> x.amount,
                        measurement_unit |-> IngredientById(x.ingredient).measurement_unit] :
                          k \in 1..rows[x] } : x \in BagToSet(rows) }

\* ORDER BY the ingredient name, descending
RankDescending(row) == IF row.null THEN 0 ELSE 0 - NameRank(row.name)

\* ORDER BY the ingredient name; the nulls come last.
Rank(row) == IF row.null THEN Len(SortedNames) + 1 ELSE NameRank(row.name)

RECURSIVE OrderBy(_)
OrderBy(S) ==
    IF S = {}
    THEN <<>>
    ELSE LET first == CHOOSE x \in S : \A y \in S : Rank(x) <= Rank(y)
         IN  <<first>> \o OrderBy(S \ {first})

\* download_shopping_cart: the query
shoppingcart(user) ==
    OrderBy(UNION { RowsOfCart(c) : c \in { d \in ShoppingCart : d.user = user } })

\* aggregate_ingredients: the dict, as the sequence of its items in the
\* order of insertion.
RECURSIVE Aggregate(_, _)
Aggregate(rows, ingredients) ==
    IF rows = <<>>
    THEN ingredients
    ELSE LET ingredient == Head(rows)
             found == { k \in DOMAIN ingredients : ingredients[k].name = ingredient.name }
         IN  IF found = {}
             THEN Aggregate(Tail(rows), Append(ingredients,
                      [name |-> ingredient.name, amount |-> ingredient.amount,
                       measurement_unit |-> ingredient.measurement_unit,
                       null |-> ingredient.null]))
             ELSE LET k == CHOOSE j \in found : TRUE
                  IN  Aggregate(Tail(rows),
                          [ingredients EXCEPT
                              ![k].amount = @ + ingredient.amount,
                              ![k].measurement_unit = ingredient.measurement_unit])

aggregate_ingredients(rows) == Aggregate(rows, <<>>)

\* aggregate_ingredients adds None to None when two result rows are null.
RaisesTypeError(rows) ==
    \E j, k \in DOMAIN rows : j # k /\ rows[j].null /\ rows[k].null

\* create_shopping_cart_file: the header (a transliteration of the
\* literal of line 212) and one line per item of the dict.
Header == "Vash spisok pokupok:"

Line(ingredient) ==
    ingredient.name \o " - "
        \o (IF ingredient.null THEN "None" ELSE ToString(ingredient.amount))
        \o " (" \o ingredient.measurement_unit \o ")."

FileText(ingredients) ==
    <<Header>> \o [k \in DOMAIN ingredients |-> Line(ingredients[k])]

\* download_shopping_cart: the query and aggregate_ingredients
QueryShoppingCart(s) ==
    /\ req[s].pc = "start"
    /\ req[s].op = "download"
    /\ LET rows == shoppingcart(req[s].user)
       IN  req' = [req EXCEPT ![s] =
               IF RaisesTypeError(rows)
               THEN Done(req[s], Response(500, "TypeError", <<>>))
               ELSE [req[s] EXCEPT !.pc = "open_w",
                                   !.ingredients = aggregate_ingredients(rows)]]
    /\ UNCHANGED <<tables, shopping_cart_txt, written>>

\* create_shopping_cart_file: open("shopping_cart.txt", "w") truncates
OpenForWriting(s) ==
    /\ req[s].pc = "open_w"
    /\ shopping_cart_txt' = <<>>
    /\ req' = [req EXCEPT ![s].pc = "write"]
    /\ UNCHANGED <<tables, written>>

\* create_shopping_cart_file: the writes reach the file when the with
\* block closes it.
WriteAndClose(s) ==
    /\ req[s].pc = "write"
    /\ shopping_cart_txt' = FileText(req[s].ingredients)
    /\ req' = [req EXCEPT ![s].pc = "open_r"]
    /\ UNCHANGED <<tables, written>>

\* create_shopping_cart_file: FileResponse(open('shopping_cart.txt', 'rb'))
OpenForReading(s) ==
    /\ req[s].pc = "open_r"
    /\ req' = [req EXCEPT ![s] = Done(req[s], Response(200, "", shopping_cart_txt))]
    /\ UNCHANGED <<tables, shopping_cart_txt, written>>

DownloadStep(s) ==
    \/ QueryShoppingCart(s)
    \/ OpenForWriting(s)
    \/ WriteAndClose(s)
    \/ OpenForReading(s)

\* ------------------------------------------------------------ specifications
\* The requests of each specification.

\* PUT and PATCH differ only for a body that lacks a key.
RecipeWrites(users) ==
    { Request("create_recipe", u, 0, FALSE, d) : u \in users, d \in RecipeData }
        \cup { Request("update_recipe", u, id, TRUE, d) :
                 u \in users, id \in RecipeIds, d \in RecipeData }
        \cup { Request("update_recipe", u, id, FALSE, d) :
                 u \in users, id \in RecipeIds, d \in LackingData }

\* user 1 posts a soup and user 2 a cake
TwoRecipes ==
    { Request("create_recipe", 1, 0, FALSE,
              Body(FirstForm, Complete, <<[id |-> 1, amount |-> 2]>>)),
      Request("create_recipe", 2, 0, FALSE,
              Body(SecondForm, Complete, <<[id |-> 2, amount |-> 1]>>)) }

Toggles(ops, users, ids) ==
    { Request(op, u, id, FALSE, NoData) : op \in ops, u \in users, id \in ids }

\* Recipe writes, one request at a time.
NextRecipes ==
    \/ \E r \in RecipeWrites({1}) : Receive(1, r)
    \/ CreateStep(1)
    \/ UpdateStep(1)

SpecRecipes == Init /\ [][NextRecipes]_vars

\* favorite and shopping_cart, one request at a time.
NextToggles ==
    \/ \E r \in TwoRecipes \cup Toggles(ToggleOps, {1}, RecipeIds)
                             \cup Toggles(ToggleOps, {2}, {1}) : Receive(1, r)
    \/ CreateStep(1)
    \/ LoadRecipe(1)
    \/ FavoriteStep(1)
    \/ ShoppingCartStep(1)
    \/ SaveLoaded(1)

SpecToggles == Init /\ [][NextToggles]_vars

\* subscribe, one request at a time.
NextSubscribe ==
    \/ \E r \in Toggles({"subscribe_post", "subscribe_delete"}, Users,
                        Users \cup {UnknownUserId}) : Receive(1, r)
    \/ SubscribeStep(1)

SpecSubscribe == Init /\ [][NextSubscribe]_vars

\* The shopping list of the recipes put into the carts, one request at a time.
DownloadData ==
    { Body(FirstForm, Complete, l) :
        l \in { <<[id |-> 1, amount |-> 1]>>,
                <<[id |-> 1, amount |-> MaxAmount], [id |-> 2, amount |-> 1]>>,
                <<[id |-> 2, amount |-> MaxAmount]>> } }

NextDownload ==
    \/ \E r \in { Request("create_recipe", 1, 0, FALSE, d) : d \in DownloadData }
                  \cup Toggles({"cart_post"}, {1}, RecipeIds)
                  \cup Toggles({"cart_post"}, {2}, {1})
                  \cup Toggles({"download"}, Users, {0}) : Receive(1, r)
    \/ CreateStep(1)
    \/ LoadRecipe(1)
    \/ CheckShoppingCart(1)
    \/ InsertShoppingCart(1)
    \/ SaveLoaded(1)
    \/ DownloadStep(1)

SpecDownload == Init /\ [][NextDownload]_vars

\* favorite and shopping_cart of one user on one recipe, two requests at a time.
NextRace ==
    \/ \E s \in Slots :
         \E r \in { Request("create_recipe", 1, 0, FALSE,
                            Body(FirstForm, Complete, <<[id |-> 1, amount |-> 1]>>)) }
                    \cup Toggles(ToggleOps, {1}, {1}) : Receive(s, r)
    \/ \E s \in Slots : CreateStep(s)
    \/ \E s \in Slots : LoadRecipe(s)
    \/ \E s \in Slots : FavoriteStep(s)
    \/ \E s \in Slots : ShoppingCartStep(s)
    \/ \E s \in Slots : SaveLoaded(s)

SpecRace == Init /\ [][NextRace]_vars

\* Writes and reads of recipes, two requests at a time.
WriteData ==
    { Body(FirstForm, Complete, <<[id |-> 1, amount |-> 1]>>),
      Body(FirstForm, Complete, <<[id |-> 1, amount |-> MaxAmount],
                                  [id |-> 2, amount |-> 1]>>),
      Body(FirstForm, Complete, <<[id |-> 2, amount |-> 1],
                                  [id |-> 1, amount |-> 1]>>) }

NextWrite ==
    \/ \E s \in Slots :
         \E r \in { Request("create_recipe", 1, 0, FALSE,
                            Body(FirstForm, Complete, <<[id |-> 1, amount |-> 1]>>)) }
                    \cup { Request("update_recipe", 1, 1, TRUE, d) : d \in WriteData }
                    \cup Toggles({"retrieve"}, {2}, {1}) : Receive(s, r)
    \/ \E s \in Slots : CreateStep(s)
    \/ \E s \in Slots : UpdateStep(s)
    \/ \E s \in Slots : LoadRecipe(s)

SpecWrite == Init /\ [][NextWrite]_vars

\* ------------------------------------------------------------------ claims
\* The handler of slot s takes a step.
Steps(s) == req'[s].pc # req[s].pc \/ req'[s].todo # req[s].todo

\* The errors of serializer.is_valid, answered with status 400.
ValidationErrors ==
    {"required", "does_not_exist", "min_value", "no_ingredients",
     "duplicate_ingredients", "no_image", "self_subscription", "already_subscribed"}

ValidationError(resp) == resp.status = 400 /\ resp.error \in ValidationErrors

NoIngredients(data) == "ingredients" \notin data.keys \/ data.ingredients = <<>>

\* C1: a create request whose ingredients list is empty or absent is
\* answered with a validation error, and its handler writes no Recipe row
\* and no RecipeIngredient row.
C1_EmptyIngredientsRejected ==
    [][\A s \in Slots :
         (/\ req[s].pc = "start"
          /\ req[s].op = "create_recipe"
          /\ NoIngredients(req[s].data)
          /\ Steps(s))
         => /\ req'[s].pc = "done"
            /\ ValidationError(req'[s].resp)
            /\ Recipe' = Recipe
            /\ RecipeIngredient' = RecipeIngredient]_vars

\* A create request with an empty list was refused while a recipe exists.
C1_Witness ==
    \E s \in Slots :
        /\ req[s].op = "create_recipe"
        /\ req[s].pc = "done"
        /\ req[s].resp.error = "no_ingredients"
        /\ Recipe # {}

Repeats(data) ==
    \E j, k \in DOMAIN data.ingredients :
        j # k /\ data.ingredients[j].id = data.ingredients[k].id

\* C2: a create request, or an update request of an existing recipe, whose
\* ingredients list names one ingredient id more than once is answered with
\* a validation error, whatever the amounts.
C2_RepeatedIngredientRejected ==
    [][\A s \in Slots :
         (/\ req[s].pc = "start"
          /\ \/ req[s].op = "create_recipe"
             \/ req[s].op = "update_recipe" /\ RecipesWithId(req[s].id) # {}
          /\ "ingredients" \in req[s].data.keys
          /\ Repeats(req[s].data)
          /\ Steps(s))
         => /\ req'[s].pc = "done"
            /\ ValidationError(req'[s].resp)]_vars

\* An update of an existing recipe was refused for its repeated id.
C2_Witness ==
    \E s \in Slots :
        /\ req[s].op = "update_recipe"
        /\ req[s].pc = "done"
        /\ req[s].resp.error = "duplicate_ingredients"
        /\ RecipesWithId(req[s].id) # {}

\* C3: when an update with the validated list L has written its last row,
\* the RecipeIngredient rows of the recipe are exactly one row
\* (recipe, id, amount) per item of L, the successful response shows these
\* rows, and no step of the update changes the rows of another recipe.
C3_UpdateReplacesIngredients ==
    /\ [](\A s \in Slots :
            /\ (req[s].op = "update_recipe" /\ req[s].pc = "represent")
               => recipeingredients(req[s].id)
                      = ListRows(req[s].id, req[s].data.ingredients)
            /\ (req[s].op = "update_recipe" /\ req[s].pc = "done"
                   /\ req[s].resp.status = 200)
               => req[s].resp.body.ingredients = recipeingredients(req[s].id))
    /\ [][\A s \in Slots :
            (req[s].op = "update_recipe" /\ req[s].pc # "done" /\ Steps(s))
            => \A id \in RecipeIds \ {req[s].id} :
                   recipeingredients(id)' = recipeingredients(id)]_vars

\* An update succeeded while another recipe has rows of its own.
C3_Witness ==
    \E s \in Slots :
        /\ req[s].op = "update_recipe"
        /\ req[s].pc = "done"
        /\ req[s].resp.status = 200
        /\ \E id \in RecipeIds \ {req[s].id} : recipeingredients(id) # EmptyBag

FavoriteOps == {"favorite_post", "favorite_delete"}
PostOps == {"favorite_post", "cart_post"}
DeleteOps == {"favorite_delete", "cart_delete"}

\* The number of rows of the relation of op that join user u and recipe id.
Count(op, u, id) ==
    IF op \in FavoriteOps
    THEN BagCardinality(Favorites(u, id))
    ELSE Cardinality(Carts(u, id))

\* The answer of status 4xx that carries the message err.
Refused(resp, err) == resp.status \in 400..499 /\ resp.error \in err

\* C4: a favorite or shopping_cart POST by u on r while a row (u, r) of its
\* relation exists passes the lookup of r, is then answered with the
\* "already added" error, and leaves both relations as they were, with
\* exactly one row (u, r).
C4_SecondPostConflicts ==
    [][\A s \in Slots :
         (/\ req[s].op \in PostOps
          /\ req[s].pc \in {"start", "check"}
          /\ Count(req[s].op, req[s].user, req[s].id) > 0
          /\ Steps(s))
         => /\ FavoriteRecipe' = FavoriteRecipe
            /\ ShoppingCart' = ShoppingCart
            /\ IF req[s].pc = "start"
               THEN req'[s].pc = "check"
               ELSE /\ req'[s].pc = "done"
                    /\ Refused(req'[s].resp, {"already_added"})
                    /\ Count(req[s].op, req[s].user, req[s].id) = 1]_vars

\* A second favorite POST was refused, and the row of the first is there.
C4_Witness ==
    \E s \in Slots :
        /\ req[s].op = "favorite_post"
        /\ req[s].pc = "done"
        /\ req[s].resp.error = "already_added"
        /\ Count(req[s].op, req[s].user, req[s].id) = 1

\* C5: a favorite or shopping_cart DELETE by u on an existing recipe r.
\* With no row (u, r) it is answered with the "not found in ..." error and
\* changes no row of either relation; with a row it is not refused, it
\* answers 204, and from the delete on no row (u, r) is left.
C5_DeleteTakesTheRowOrFails ==
    /\ [][\A s \in Slots :
            (/\ req[s].op \in DeleteOps
             /\ req[s].pc \in {"start", "check", "delete", "save"}
             /\ RecipesWithId(req[s].id) # {}
             /\ Steps(s))
            => CASE req[s].pc = "start" ->
                      /\ req'[s].pc \in {"check", "delete"}
                      /\ FavoriteRecipe' = FavoriteRecipe
                      /\ ShoppingCart' = ShoppingCart
                 [] req[s].pc = "save" ->
                      /\ req'[s].pc = "done"
                      /\ req'[s].resp.status = 204
                 [] OTHER ->
                      IF Count(req[s].op, req[s].user, req[s].id) = 0
                      THEN /\ req'[s].pc = "done"
                           /\ Refused(req'[s].resp,
                                      {"not_in_favorites", "not_in_shopping_cart"})
                           /\ FavoriteRecipe' = FavoriteRecipe
                           /\ ShoppingCart' = ShoppingCart
                      ELSE req'[s].pc \in {"delete", "save"}]_vars
    /\ [](\A s \in Slots :
            (/\ req[s].op \in DeleteOps
             /\ \/ req[s].pc = "save"
                \/ req[s].pc = "done" /\ req[s].resp.status = 204)
            => Count(req[s].op, req[s].user, req[s].id) = 0)

\* A shopping_cart DELETE found no row of its user while the cart table
\* holds rows.
C5_Witness ==
    \E s \in Slots :
        /\ req[s].op = "cart_delete"
        /\ req[s].pc = "done"
        /\ req[s].resp.error = "not_in_shopping_cart"
        /\ RecipesWithId(req[s].id) # {}
        /\ ShoppingCart # {}

\* C6: a subscribe POST whose author is the requesting user is answered with
\* the self-subscription validation error and leaves Subscribers as it was,
\* whatever rows it holds; and no Subscribers row ever has author = user.
C6_NoSelfSubscription ==
    /\ [][\A s \in Slots :
            (/\ req[s].op = "subscribe_post"
             /\ req[s].pc = "start"
             /\ req[s].id = req[s].user
             /\ Steps(s))
            => /\ req'[s].pc = "done"
               /\ req'[s].resp.status = 400
               /\ req'[s].resp.error = "self_subscription"
               /\ Subscribers' = Subscribers]_vars
    /\ [](\A x \in BagToSet(Subscribers) : x.author # x.user)

\* A user who follows an author and is followed was refused to follow
\* themself.
C6_Witness ==
    \E s \in Slots :
        /\ req[s].op = "subscribe_post"
        /\ req[s].pc = "done"
        /\ req[s].resp.error = "self_subscription"
        /\ \E x, y \in BagToSet(Subscribers) :
               x.user = req[s].user /\ y.author = req[s].user

\* C10: a favorite or shopping_cart POST that succeeds has inserted exactly
\* one row (u, r) and its body is the minified representation of recipe r:
\* r's id, name, image and cooking_time.
C10_PostReturnsTheRecipe ==
    \A s \in Slots :
        (req[s].op \in PostOps /\ req[s].pc = "done" /\ req[s].resp.status = 201)
        => /\ Count(req[s].op, req[s].user, req[s].id) = 1
           /\ \E r \in RecipesWithId(req[s].id) :
                  req[s].resp.body = RecipeMinified(r)

\* The recipes of u's cart, their RecipeIngredient rows, and the ingredient
\* names of these rows.
CartRecipes(u) == { c.recipe : c \in { d \in ShoppingCart : d.user = u } }

CartRows(u) == { x \in BagToSet(RecipeIngredient) : x.recipe \in CartRecipes(u) }

NameOf(x) == IngredientById(x.ingredient).name

CartNames(u) == { NameOf(x) : x \in CartRows(u) }

RECURSIVE SumOfAmounts(_)
SumOfAmounts(S) ==
    IF S = {}
    THEN 0
    ELSE LET x == CHOOSE y \in S : TRUE IN x.amount + SumOfAmounts(S \ {x})

\* The sum of the amounts of the name n over the recipes of u's cart, every
\* (recipe, ingredient) row counted once.
Total(u, n) == SumOfAmounts({ x \in CartRows(u) : NameOf(x) = n })

UnitOf(n) == (CHOOSE i \in Ingredient : i.name = n).measurement_unit

ProductLine(u, n, end) ==
    n \o " - " \o ToString(Total(u, n)) \o " (" \o UnitOf(n) \o ")" \o end

\* The lines after the header are one line per name, each with its total.
OneLinePerName(u, body, end) ==
    /\ Len(body) = 1 + Cardinality(CartNames(u))
    /\ { body[k] : k \in 2..Len(body) } = { ProductLine(u, n, end) : n \in CartNames(u) }

\* C7, as amended: the shopping list u downloads holds exactly one product
\* line per distinct ingredient name of the recipes in u's cart, and the
\* line of a name reads "name - total (unit)." with the full stop, total
\* being the sum of the amounts of the name over the cart's recipes, each
\* (recipe, ingredient) amount counted once.
C7_OneLinePerNameWithTotal ==
    \A s \in Slots :
        (req[s].op = "download" /\ req[s].pc = "done" /\ req[s].resp.status = 200)
        => OneLinePerName(req[s].user, req[s].resp.body, ".")

\* C7, as claimed: the line of a name reads "name - total (unit)", as in
\* "Salt - 15 (g)".
C7_LineAsClaimed ==
    \A s \in Slots :
        (req[s].op = "download" /\ req[s].pc = "done" /\ req[s].resp.status = 200)
        => OneLinePerName(req[s].user, req[s].resp.body, "")

\* The downloaded cart holds two recipes that share an ingredient, one of
\* them with a second ingredient.
C7_Witness ==
    \E s \in Slots :
        /\ req[s].op = "download"
        /\ req[s].pc = "done"
        /\ req[s].resp.status = 200
        /\ \E x, y, z \in CartRows(req[s].user) :
               /\ x.recipe # y.recipe /\ x.ingredient = y.ingredient
               /\ z.recipe = x.recipe /\ z.ingredient # x.ingredient

\* C8: a favorite or shopping_cart POST whose insert meets the row (u, r)
\* that a racing POST has inserted is answered with the "already added"
\* error of the sequential case.
C8_LosingInsertAnswersConflict ==
    [][\A s \in Slots :
         (/\ req[s].op \in PostOps
          /\ req[s].pc = "insert"
          /\ Count(req[s].op, req[s].user, req[s].id) > 0
          /\ Steps(s))
         => /\ req'[s].pc = "done"
            /\ Refused(req'[s].resp, {"already_added"})]_vars

\* A write of recipe id has written the Recipe row or cleared the rows, and
\* has not yet inserted its last row.
MidWrite(t, id) ==
    /\ req[t].op \in {"create_recipe", "update_recipe"}
    /\ req[t].pc \in {"save", "add_ingredients"}
    /\ req[t].recipe.id = id

\* C9: no request reads a recipe between the first and the last statement
\* of a write of it (the Recipe row without all its rows, the rows cleared
\* or partly re-inserted); and when the last of the writes of a recipe that
\* overlap ends, the recipe's rows are the complete list of one of them.
C9_WritesAreAtomic ==
    [][\A s \in Slots :
         /\ (req[s].op = "retrieve" /\ req[s].pc = "represent" /\ Steps(s))
            => ~ \E t \in Slots \ {s} : MidWrite(t, req[s].recipe.id)
         /\ \A id \in RecipeIds :
              (/\ WriteInFlight(s, id)
               /\ req'[s].pc = "done"
               /\ ~ \E t \in Slots \ {s} : WriteInFlight(t, id))
              => recipeingredients(id)' \in written[id]]_vars

\* C11: an update request of an existing recipe that carries no image, or
\* no ingredients field, is answered with a validation error and writes
\* nothing, although the recipe has a stored image and ingredient rows;
\* this holds for PUT and for PATCH.
C11_UpdateValidatesAsCreate ==
    [][\A s \in Slots :
         (/\ req[s].pc = "start"
          /\ req[s].op = "update_recipe"
          /\ RecipesWithId(req[s].id) # {}
          /\ Complete \ req[s].data.keys # {}
          /\ Steps(s))
         => /\ req'[s].pc = "done"
            /\ ValidationError(req'[s].resp)
            /\ Recipe' = Recipe
            /\ RecipeIngredient' = RecipeIngredient]_vars

\* A PATCH without image was refused for a recipe that has an image and rows.
C11_Witness ==
    \E s \in Slots :
        /\ req[s].op = "update_recipe"
        /\ req[s].pc = "done"
        /\ req[s].resp.error = "no_image"
        /\ \E r \in RecipesWithId(req[s].id) : r.image # NoImage
        /\ recipeingredients(req[s].id) # EmptyBag

\* The toggles of both relations and of subscribe, and the reads that
\* report the flags, by users 1 and 2 and by the anonymous requester 0, one
\* request at a time.
Anonymous == 0

NextFlags ==
    \/ \E r \in { Request("create_recipe", 1, 0, FALSE,
                          Body(FirstForm, Complete, <<[id |-> 1, amount |-> 1]>>)) }
                  \cup Toggles(ToggleOps, Users, {1})
                  \cup Toggles({"retrieve"}, Users \cup {Anonymous}, RecipeIds)
                  \cup { r \in Toggles({"subscribe_post", "subscribe_delete"},
                                        Users, Users) : r.user # r.id }
                  \cup Toggles({"retrieve_user"}, Users \cup {Anonymous},
                               Users \cup {UnknownUserId}) : Receive(1, r)
    \/ CreateStep(1)
    \/ LoadRecipe(1)
    \/ FavoriteStep(1)
    \/ ShoppingCartStep(1)
    \/ SaveLoaded(1)
    \/ StartSubscribe(1)
    \/ InsertSubscriber(1)
    \/ RepresentSubscription(1)
    \/ Unsubscribe(1)
    \/ RetrieveUser(1)

SpecFlags == Init /\ [][NextFlags]_vars

\* C12: the flags of a response are the existence of the join row of the
\* requester: is_favorited(r) iff a FavoriteRecipe row (u, r) exists,
\* is_in_shopping_cart(r) iff a ShoppingCart row (u, r) exists,
\* is_subscribed(a) iff a Subscribers row (author a, user u) exists; for the
\* anonymous requester all three are false.
C12_FlagsAreRowExistence ==
    \A s \in Slots :
        LET u == req[s].user
            body == req[s].resp.body
        IN  /\ (/\ req[s].pc = "done"
                /\ req[s].op \in {"create_recipe", "retrieve"}
                /\ req[s].resp.status \in {200, 201})
               => /\ body.is_favorited
                       <=> (/\ u # Anonymous
                            /\ [user |-> u, recipe |-> req[s].id]
                                   \in BagToSet(FavoriteRecipe))
                  /\ body.is_in_shopping_cart
                       <=> (/\ u # Anonymous
                            /\ \E c \in ShoppingCart :
                                   c.user = u /\ c.recipe = req[s].id)
            /\ (/\ req[s].pc = "done"
                /\ req[s].op \in {"retrieve_user", "subscribe_post"}
                /\ req[s].resp.status \in {200, 201})
               => body.is_subscribed
                       <=> (/\ u # Anonymous
                            /\ [author |-> req[s].id, user |-> u]
                                   \in BagToSet(Subscribers))

\* User 2 reads a recipe that user 1 has in favorites and user 2 has not.
C12_Witness ==
    \E s \in Slots :
        /\ req[s].pc = "done"
        /\ req[s].op = "retrieve"
        /\ req[s].resp.status = 200
        /\ req[s].user = 2
        /\ [user |-> 1, recipe |-> req[s].id] \in BagToSet(FavoriteRecipe)
        /\ [user |-> 2, recipe |-> req[s].id] \notin BagToSet(FavoriteRecipe)
        /\ \E c \in ShoppingCart : c.user = 2 /\ c.recipe = req[s].id

\* The toggles of the three join tables by one user on one recipe and one
\* author, two requests at a time.
NextPairs ==
    \/ \E s \in Slots :
         \E r \in { Request("create_recipe", 1, 0, FALSE,
                            Body(FirstForm, Complete, <<[id |-> 1, amount |-> 1]>>)) }
                    \cup Toggles(ToggleOps, {1}, {1})
                    \cup Toggles({"subscribe_post", "subscribe_delete"}, {1}, {2}) :
             Receive(s, r)
    \/ \E s \in Slots : CreateStep(s)
    \/ \E s \in Slots : LoadRecipe(s)
    \/ \E s \in Slots : FavoriteStep(s)
    \/ \E s \in Slots : ShoppingCartStep(s)
    \/ \E s \in Slots : SaveLoaded(s)
    \/ \E s \in Slots : SubscribeStep(s)

SpecPairs == Init /\ [][NextPairs]_vars

\* C13: in every state, whatever the interleaving of the POST and DELETE
\* toggles, FavoriteRecipe holds at most one row per (user, recipe),
\* ShoppingCart at most one row per (user, recipe), and Subscribers at most
\* one row per (author, user).
C13_OneRowPerPair ==
    /\ \A x \in BagToSet(FavoriteRecipe) : FavoriteRecipe[x] = 1
    /\ \A c, d \in ShoppingCart : (c.user = d.user /\ c.recipe = d.recipe) => c = d
    /\ \A x \in BagToSet(Subscribers) : Subscribers[x] = 1

\* Two favorite POSTs raced: one lost its insert to the unique constraint,
\* and the row of the other is there.
C13_Witness ==
    \E s \in Slots :
        /\ req[s].op = "favorite_post"
        /\ req[s].pc = "done"
        /\ req[s].resp.error = "IntegrityError"
        /\ [user |-> req[s].user, recipe |-> req[s].id] \in BagToSet(FavoriteRecipe)

\* C14: a subscribe POST by u to an existing author a while the row (a, u)
\* exists is answered with the "already subscribed" error and leaves the
\* one row; an unsubscribe DELETE while no row (a, u) exists is answered
\* with a not-found error and changes nothing; a subscribe or unsubscribe
\* that names an author id without User row is answered with 404.
C14_SubscribeErrors ==
    [][\A s \in Slots :
         (/\ req[s].pc = "start"
          /\ req[s].op \in {"subscribe_post", "subscribe_delete"}
          /\ Steps(s))
         => LET a == req[s].id
                u == req[s].user
                row == [author |-> a, user |-> u]
            IN  /\ (a \in Users /\ req[s].op = "subscribe_post"
                       /\ row \in BagToSet(Subscribers))
                   => /\ req'[s].pc = "done"
                      /\ Refused(req'[s].resp, {"already_subscribed"})
                      /\ Subscribers' = Subscribers
                      /\ Subscribers[row] = 1
                /\ (a \in Users /\ req[s].op = "subscribe_delete"
                       /\ row \notin BagToSet(Subscribers))
                   => /\ req'[s].pc = "done"
                      /\ Refused(req'[s].resp, {"not_found", "not_subscribed"})
                      /\ Subscribers' = Subscribers
                /\ a \notin Users
                   => /\ req'[s].pc = "done"
                      /\ req'[s].resp.status = 404
                      /\ req'[s].resp.error = "not_found"
                      /\ Subscribers' = Subscribers]_vars

\* The names of the recipes in u's cart.
CartRecipeNames(u) == { r.name : r \in { x \in Recipe : x.id \in CartRecipes(u) } }

\* The ingredient names of u's cart in name order.
CartNamesInOrder(u) ==
    CHOOSE f \in [1..Cardinality(CartNames(u)) -> CartNames(u)] :
        \A j, k \in DOMAIN f : j < k => NameRank(f[j]) < NameRank(f[k])

\* Lines 2 .. n + 1 of body are the product lines of u's cart in name
\* order, each ending with one of ends.
ProductsSection(u, body, ends) ==
    LET names == CartNamesInOrder(u)
    IN  /\ Len(body) >= 1 + Len(names)
        /\ \A k \in DOMAIN names :
               \E end \in ends : body[k + 1] = ProductLine(u, names[k], end)

\* C15, as amended: the report is the fixed header line, without a
\* timestamp, followed by one line "name - total (unit)." per distinct
\* ingredient name of the cart in name order, and nothing else: there is no
\* Recipes section, and for an empty cart the report is the header alone.
C15_HeaderAndProducts ==
    \A s \in Slots :
        (req[s].op = "download" /\ req[s].pc = "done" /\ req[s].resp.status = 200)
        => LET body == req[s].resp.body
               u == req[s].user
           IN  /\ Len(body) = 1 + Cardinality(CartNames(u))
               /\ body[1] = Header
               /\ ProductsSection(u, body, {"."})

\* C15, as claimed: after the header and the product lines (with or without
\* the full stop) the report lists exactly the distinct names of the recipes
\* in the cart, one per line; for an empty cart both sections are empty.
C15_ReportAsClaimed ==
    \A s \in Slots :
        (req[s].op = "download" /\ req[s].pc = "done" /\ req[s].resp.status = 200)
        => LET body == req[s].resp.body
               u == req[s].user
               n == Cardinality(CartNames(u))
           IN  /\ Len(body) = 1 + n + Cardinality(CartRecipeNames(u))
               /\ ProductsSection(u, body, {"", "."})
               /\ { body[k] : k \in (n + 2)..Len(body) } = CartRecipeNames(u)

\* A download of a cart whose one recipe has two ingredients: two product
\* lines, in name order.
C15_Witness ==
    \E s \in Slots :
        /\ req[s].op = "download"
        /\ req[s].pc = "done"
        /\ req[s].resp.status = 200
        /\ Cardinality(CartRecipes(req[s].user)) = 1
        /\ Len(req[s].resp.body) = 3

\* C16: whenever the create and update requests sent so far, one after the
\* other, have all completed, every Recipe has at least one RecipeIngredient
\* row, every row has amount >= 1, and no recipe has two rows of one
\* ingredient.
C16_RecipeInvariants ==
    (\A s \in Slots : Free(s))
    => /\ \A r \in Recipe : recipeingredients(r.id) # EmptyBag
       /\ \A x \in BagToSet(RecipeIngredient) :
            /\ x.amount >= 1
            /\ RecipeIngredient[x] = 1
            /\ \A y \in BagToSet(RecipeIngredient) :
                   (x.recipe = y.recipe /\ x.ingredient = y.ingredient) => x = y

\* Two recipes stand after an update has completed, one of them with two
\* ingredients.
C16_Witness ==
    /\ \A s \in Slots : Free(s)
    /\ \E s \in Slots : req[s].op = "update_recipe" /\ req[s].resp.status = 200
    /\ Cardinality(Recipe) = 2
    /\ \E x, y \in BagToSet(RecipeIngredient) :
           x.recipe = y.recipe /\ x.ingredient # y.ingredient

\* The downloads of two users with different carts, two requests at a time.
NextShared ==
    \/ \E s \in Slots :
         \E r \in { Request("create_recipe", 1, 0, FALSE, Body(FirstForm, Complete, l)) :
                      l \in { <<[id |-> 1, amount |-> 1]>>,
                              <<[id |-> 2, amount |-> MaxAmount]>> } }
                    \cup Toggles({"cart_post"}, {1}, {1})
                    \cup Toggles({"cart_post"}, {2}, {2})
                    \cup Toggles({"download"}, Users, {0}) : Receive(s, r)
    \/ \E s \in Slots : CreateStep(s)
    \/ \E s \in Slots : LoadRecipe(s)
    \/ \E s \in Slots : CheckShoppingCart(s)
    \/ \E s \in Slots : InsertShoppingCart(s)
    \/ \E s \in Slots : SaveLoaded(s)
    \/ \E s \in Slots : DownloadStep(s)

SpecShared == Init /\ [][NextShared]_vars

\* C17: the response of a download is the report of the list that the
\* request aggregated from its own requester's cart, whatever the other
\* download does meanwhile: no line of the other user's cart, no truncated
\* list.
C17_DownloadReturnsOwnList ==
    [][\A s \in Slots :
         (req[s].op = "download" /\ req[s].pc = "open_r" /\ Steps(s))
         => /\ req'[s].pc = "done"
            /\ req'[s].resp.status = 200
            /\ req'[s].resp.body = FileText(req[s].ingredients)]_vars

\* The causes of rejection: no ingredients, one ingredient id twice, no
\* image, an ingredient id without Ingredient row, an amount below 1.
Rejectable(data) ==
    \/ NoIngredients(data)
    \/ Repeats(data)
    \/ "image" \notin data.keys
    \/ data.image = NoImage
    \/ \E k \in DOMAIN data.ingredients :
          \/ data.ingredients[k].id \notin IngredientIds
          \/ data.ingredients[k].amount < 1

\* C18: a create request, or an update request of an existing recipe, whose
\* body has no ingredients, a repeated ingredient id, no image, an unknown
\* ingredient id or an amount below 1 is answered with a validation error
\* and leaves every table as it was: no Recipe field and no RecipeIngredient
\* row of the recipe is cleared or altered.
C18_RejectedWriteChangesNothing ==
    [][\A s \in Slots :
         (/\ req[s].pc = "start"
          /\ \/ req[s].op = "create_recipe"
             \/ req[s].op = "update_recipe" /\ RecipesWithId(req[s].id) # {}
          /\ Rejectable(req[s].data)
          /\ Steps(s))
         => /\ req'[s].pc = "done"
            /\ ValidationError(req'[s].resp)
            /\ UNCHANGED tables]_vars

\* An update of a stored recipe with rows was refused for an amount below 1,
\* and the rows are there.
C18_Witness ==
    \E s \in Slots :
        /\ req[s].op = "update_recipe"
        /\ req[s].pc = "done"
        /\ req[s].resp.error = "min_value"
        /\ RecipesWithId(req[s].id) # {}
        /\ recipeingredients(req[s].id) # EmptyBag

\* The toggles of user 1 on recipe 1 and an update of recipe 1, two requests
\* at a time.
NextStale ==
    \/ \E s \in Slots :
         \E r \in { Request("create_recipe", 1, 0, FALSE,
                            Body(FirstForm, Complete, <<[id |-> 1, amount |-> 1]>>)),
                    Request("update_recipe", 1, 1, FALSE,
                            Body(SecondForm, Complete, <<[id |-> 2, amount |-> 1]>>)) }
                    \cup Toggles(ToggleOps, {1}, {1}) : Receive(s, r)
    \/ \E s \in Slots : CreateStep(s)
    \/ \E s \in Slots : UpdateStep(s)
    \/ \E s \in Slots : LoadRecipe(s)
    \/ \E s \in Slots : FavoriteStep(s)
    \/ \E s \in Slots : ShoppingCartStep(s)
    \/ \E s \in Slots : SaveLoaded(s)

SpecStale == Init /\ [][NextStale]_vars

\* C19: a step of a favorite or shopping_cart POST or DELETE by user u on
\* recipe r changes nothing but the (u, r) row of its own relation: the rows
\* of other pairs, the other relation, Subscribers, every Recipe row and
\* every RecipeIngredient row stay as they are, also while an update of r is
\* in flight in the other slot.
C19_ToggleTouchesOneRow ==
    [][\A s \in Slots :
         (req[s].op \in ToggleOps /\ Steps(s))
         => LET u == req[s].user
                r == req[s].id
                OtherPair(x) == ~(x.user = u /\ x.recipe = r)
            IN  /\ Recipe' = Recipe
                /\ RecipeIngredient' = RecipeIngredient
                /\ Subscribers' = Subscribers
                /\ req[s].op \in {"favorite_post", "favorite_delete"}
                   => /\ ShoppingCart' = ShoppingCart
                      /\ Where(FavoriteRecipe', OtherPair)
                             = Where(FavoriteRecipe, OtherPair)
                /\ req[s].op \in {"cart_post", "cart_delete"}
                   => /\ FavoriteRecipe' = FavoriteRecipe
                      /\ { x \in ShoppingCart' : OtherPair(x) }
                             = { x \in ShoppingCart : OtherPair(x) }]_vars

====
